---------------------------- MODULE Spec2Model ----------------------------
(***************************************************************************)
(* A model of pygad_utils: the gene/parameter transforms                   *)
(* (LinearTransform, ExponentialTransform), the ParameterSpace that        *)
(* aggregates them, and the constraint-enforcing ("death sentence")        *)
(* wrappers around a crossover and a mutation operator.                    *)
(*                                                                         *)
(* Numbers.  Genes and linear values are exact rationals <<n, d>> in       *)
(* lowest terms with d > 0; <<0, 0>> (NaN) stands for the outcome of a     *)
(* division by zero (ZeroDivisionError on Python numbers, inf/nan on numpy *)
(* scalars), and it propagates through every later operation.             *)
(* A strictly positive real handled by ExponentialTransform is             *)
(* represented by its base-2 logarithm: the value 2^L is the record        *)
(* [lg |-> L], L a rational.  A real produced by np.log is a rational in   *)
(* units of ln 2.  Under this representation *, /, ** on positive reals    *)
(* and np.log, np.exp are exact (PMul, PDiv, PPow, PLog, PExp below).      *)
(***************************************************************************)
EXTENDS Integers, Sequences, FiniteSets, TLC

VARIABLES
    \* ---- transforms (LinearTransform / ExponentialTransform) ----
    tkind,          \* "lin" or "exp": which class is under test
    gene_range,     \* <<g1, g2>>
    value_range,    \* <<v1, v2>>
    tpc,            \* "new", "ready" (constructed), "raised" (constructor failed)
    slope,          \* LinearTransform.slope
    intercept,      \* LinearTransform.intercept
    exp_coeff,      \* ExponentialTransform.exp_coeff
    coeff,          \* ExponentialTransform.coeff
    top,            \* last method applied: "none", "to_value", "to_gene"
    targ,           \* its argument
    tres,           \* its result
    tback,          \* the opposite method applied to the result
    \* ---- ParameterSpace ----
    ps_parameters,  \* constructor argument `parameters`: <<name, entry>> pairs
                    \* in insertion order
    ps_gene_range,  \* constructor argument `gene_range`; <<>> is None
    spc,            \* "new", "ready" (constructed), "raised"
    parameters,     \* self.parameters: <<name, transform>> pairs in insertion order
    sop,            \* last method: "none", "to_parameters", "to_genes"
    genes,          \* argument of the last to_parameters call
    sout,           \* how that call ended: "none", "returned", "raised"
    result,         \* the dict it returned: <<name, value>> pairs
    genes_back,     \* to_genes(result)
    \* ---- the constrained crossover / mutation wrappers ----
    wrapper,        \* "crossover" or "mutation": which wrapper is called
    condition_kind, \* which feasibility predicate `condition` is
    wpc,            \* "call", "loop" (some row pending), "done", "raised"
    offspring_size, \* <<R, C>>
    caller_parents, \* the caller's `parents` array
    local_parents,  \* the array parents.copy() allocates
    parents_ref,    \* the array the wrapper's name `parents` is bound to:
                    \* "caller" or "local"
    offspring,      \* crossover: the output buffer; mutation: the caller's array
    initial_offspring, \* mutation: offspring.copy()
    to_generate,    \* crossover: mask of pending rows
    check_offspring,\* mutation: mask of pending rows
    calls,          \* invocations of the base operator so far (up to MaxCalls)
    entry_parents,  \* history: the caller's parents when the call was made
    entry_offspring,\* history: the caller's offspring when the call was made
    arg_parents,    \* history: parents handed to the last crossover_func call
    arg_size,       \* history: size handed to the last crossover_func call
    arg_rows        \* history: rows handed to the last mutation_func call

tvars == <<tkind, gene_range, value_range, tpc, slope, intercept, exp_coeff,
           coeff, top, targ, tres, tback>>

svars == <<ps_parameters, ps_gene_range, spc, parameters, sop, genes, sout,
           result, genes_back>>

wvars == <<wrapper, condition_kind, wpc, offspring_size, caller_parents,
           local_parents, parents_ref, offspring, initial_offspring,
           to_generate, check_offspring, calls, entry_parents,
           entry_offspring, arg_parents, arg_size, arg_rows>>

vars == <<tvars, svars, wvars>>

-----------------------------------------------------------------------------
(* Exact rational arithmetic *)

Abs(n) == IF n < 0 THEN -n ELSE n

RECURSIVE GCD(_, _)
GCD(a, b) == IF b = 0 THEN a ELSE GCD(b, a % b)

NaN == <<0, 0>>

IsNaN(a) == a[2] = 0

\* The rational n/d in lowest terms with positive denominator (d # 0).
Norm(n, d) ==
    LET g == GCD(Abs(n), Abs(d))
        s == IF d < 0 THEN -1 ELSE 1
    IN  <<(s * n) \div g, (s * d) \div g>>

Rat(n) == <<n, 1>>

RAdd(a, b) == IF IsNaN(a) \/ IsNaN(b) THEN NaN
              ELSE Norm(a[1] * b[2] + b[1] * a[2], a[2] * b[2])

RSub(a, b) == IF IsNaN(a) \/ IsNaN(b) THEN NaN
              ELSE Norm(a[1] * b[2] - b[1] * a[2], a[2] * b[2])

RMul(a, b) == IF IsNaN(a) \/ IsNaN(b) THEN NaN
              ELSE Norm(a[1] * b[1], a[2] * b[2])

\* a / b; a zero divisor gives NaN.
RDiv(a, b) == IF IsNaN(a) \/ IsNaN(b) \/ b[1] = 0 THEN NaN
              ELSE Norm(a[1] * b[2], a[2] * b[1])

\* Numeric equality: NaN equals nothing.
REq(a, b) == ~IsNaN(a) /\ ~IsNaN(b) /\ a = b

(* Positive reals by their base-2 logarithm *)
Pos(L) == [lg |-> L]                         \* the positive real 2^L
PMul(x, y) == [lg |-> RAdd(x.lg, y.lg)]      \* x * y
PDiv(x, y) == [lg |-> RSub(x.lg, y.lg)]      \* x / y
PPow(x, r) == [lg |-> RMul(x.lg, r)]         \* x ** r, r a plain rational
PLog(x) == x.lg                              \* np.log(x), in units of ln 2
PExp(u) == [lg |-> u]                        \* np.exp(u), u in units of ln 2
PEq(x, y) == REq(x.lg, y.lg)

-----------------------------------------------------------------------------
(* LinearTransform *)

LinearSlope(g1, g2, v1, v2) == RDiv(RSub(v2, v1), RSub(g2, g1))

\* An intercept with the gene endpoints exchanged in the numerator.
LinearInterceptSwapped(g1, g2, v1, v2) ==
    RDiv(RSub(RMul(v1, g1), RMul(v2, g2)), RSub(g2, g1))

LinearIntercept(g1, g2, v1, v2) ==
    RDiv(RSub(RMul(v1, g2), RMul(v2, g1)), RSub(g2, g1))

LinearToValue(sl, ic, gene) == RAdd(RMul(sl, gene), ic)

\* (for a plain number; the pint.Quantity branch is not taken)
LinearToGene(sl, ic, value) == RDiv(RSub(value, ic), sl)

(* ExponentialTransform *)

ExpCoeff(g1, g2, v1, v2) == RDiv(PLog(PDiv(v2, v1)), RSub(g2, g1))

Coeff(g1, g2, v1, v2) ==
    PMul(PPow(v2, RDiv(g1, RSub(g2, g1))), PPow(v1, RDiv(g2, RSub(g2, g1))))

ExpToValue(ec, c, gene) == PMul(c, PExp(RMul(ec, gene)))

ExpToGene(ec, c, value) == RDiv(PLog(PDiv(value, c)), ec)

-----------------------------------------------------------------------------
(* Variables of the other components, at rest *)

SpaceIdle ==
    /\ ps_parameters = <<>> /\ ps_gene_range = <<>> /\ spc = "idle"
    /\ parameters = <<>> /\ sop = "none" /\ genes = <<>> /\ sout = "none"
    /\ result = <<>> /\ genes_back = <<>>

WrapperIdle ==
    /\ wrapper = "none" /\ condition_kind = "none" /\ wpc = "idle"
    /\ offspring_size = <<0, 0>>
    /\ caller_parents = <<>> /\ local_parents = <<>> /\ parents_ref = "caller"
    /\ offspring = <<>> /\ initial_offspring = <<>>
    /\ to_generate = <<>> /\ check_offspring = <<>> /\ calls = 0
    /\ entry_parents = <<>> /\ entry_offspring = <<>>
    /\ arg_parents = <<>> /\ arg_size = <<0, 0>> /\ arg_rows = <<>>

TransformIdle ==
    /\ tkind = "none" /\ gene_range = <<>> /\ value_range = <<>> /\ tpc = "idle"
    /\ slope = NaN /\ intercept = NaN /\ exp_coeff = NaN /\ coeff = Pos(NaN)
    /\ top = "none" /\ targ = NaN /\ tres = NaN /\ tback = NaN

-----------------------------------------------------------------------------
(* Inputs of the transform specification *)

Mid(a, b) == RDiv(RAdd(a, b), Rat(2))

GeneEnds == {Rat(-1), Rat(0), Rat(1), Rat(2)}

LinValues == {Rat(-1), Rat(0), Rat(3)}

ExpValues == {Pos(Rat(-1)), Pos(Rat(0)), Pos(Rat(1)), Pos(Rat(2))}

\* Well-formed pairs, and one malformed range of each length other than 2.
GeneRanges == (GeneEnds \X GeneEnds) \cup {<<Rat(0)>>, <<Rat(0), Rat(1), Rat(2)>>}

ValueRanges(kind) ==
    IF kind = "lin" THEN (LinValues \X LinValues) \cup {<<Rat(0)>>}
    ELSE (ExpValues \X ExpValues) \cup {<<Pos(Rat(0))>>}

G1 == gene_range[1]
G2 == gene_range[2]
V1 == value_range[1]
V2 == value_range[2]

ProbeGenes == {G1, G2, Mid(G1, G2), Rat(0), Rat(3)}

ProbeValues ==
    IF tkind = "lin" THEN {V1, V2, Mid(V1, V2), Rat(0), Rat(5)}
    ELSE {V1, V2, Pos(Mid(V1.lg, V2.lg)), Pos(Rat(0)), Pos(Rat(2))}

to_value(gene) ==
    IF tkind = "lin" THEN LinearToValue(slope, intercept, gene)
    ELSE ExpToValue(exp_coeff, coeff, gene)

to_gene(value) ==
    IF tkind = "lin" THEN LinearToGene(slope, intercept, value)
    ELSE ExpToGene(exp_coeff, coeff, value)

TransformInit ==
    /\ tkind \in {"lin", "exp"}
    /\ gene_range \in GeneRanges
    /\ value_range \in ValueRanges(tkind)
    /\ tpc = "new"
    /\ slope = NaN /\ intercept = NaN
    /\ exp_coeff = NaN /\ coeff = Pos(NaN)
    /\ top = "none" /\ targ = NaN /\ tres = NaN /\ tback = NaN
    /\ SpaceIdle
    /\ WrapperIdle

\* __init__ of either class: the two length checks raise ValueError; equal
\* gene endpoints make the first division fail.
Construct ==
    /\ tpc = "new"
    /\ IF Len(gene_range) # 2 \/ Len(value_range) # 2 \/ G1 = G2
       THEN /\ tpc' = "raised"
            /\ UNCHANGED <<slope, intercept, exp_coeff, coeff>>
       ELSE /\ tpc' = "ready"
            /\ IF tkind = "lin"
               THEN /\ slope' = LinearSlope(G1, G2, V1, V2)
                    /\ intercept' = LinearIntercept(G1, G2, V1, V2)
                    /\ UNCHANGED <<exp_coeff, coeff>>
               ELSE /\ exp_coeff' = ExpCoeff(G1, G2, V1, V2)
                    /\ coeff' = Coeff(G1, G2, V1, V2)
                    /\ UNCHANGED <<slope, intercept>>
    /\ UNCHANGED <<tkind, gene_range, value_range, top, targ, tres, tback>>
    /\ UNCHANGED <<svars, wvars>>

\* to_value(gene), followed by to_gene of its result.
ApplyToValue ==
    /\ tpc = "ready"
    /\ \E gene \in ProbeGenes :
         /\ top' = "to_value"
         /\ targ' = gene
         /\ tres' = to_value(gene)
         /\ tback' = to_gene(to_value(gene))
    /\ UNCHANGED <<tkind, gene_range, value_range, tpc, slope, intercept,
                   exp_coeff, coeff>>
    /\ UNCHANGED <<svars, wvars>>

\* to_gene(value), followed by to_value of its result.
ApplyToGene ==
    /\ tpc = "ready"
    /\ \E value \in ProbeValues :
         /\ top' = "to_gene"
         /\ targ' = value
         /\ tres' = to_gene(value)
         /\ tback' = to_value(to_gene(value))
    /\ UNCHANGED <<tkind, gene_range, value_range, tpc, slope, intercept,
                   exp_coeff, coeff>>
    /\ UNCHANGED <<svars, wvars>>

TransformNext == Construct \/ ApplyToValue \/ ApplyToGene

TransformSpec == TransformInit /\ [][TransformNext]_vars

-----------------------------------------------------------------------------
(* Properties of the transforms *)

LinReady == tkind = "lin" /\ tpc = "ready"
ExpReady == tkind = "exp" /\ tpc = "ready"

\* C3: an ExponentialTransform built from gene_range (g1, g2), g1 # g2, and a
\* strictly positive value_range (v1, v2) maps the gene endpoints to the value
\* endpoints and back: to_value(g1) = v1, to_value(g2) = v2, to_gene(v1) = g1,
\* to_gene(v2) = g2, whatever g1 is.
C3_ExpBoundaryExact ==
    ExpReady =>
        /\ (top = "to_value" /\ targ = G1) => PEq(tres, V1)
        /\ (top = "to_value" /\ targ = G2) => PEq(tres, V2)
        /\ (top = "to_gene" /\ targ = V1) => REq(tres, G1)
        /\ (top = "to_gene" /\ targ = V2) => REq(tres, G2)

\* The round trip and the three fixed points of a LinearTransform.
LinearLaws ==
    /\ top = "to_value" =>
          /\ REq(tback, targ)
          /\ targ = G1 => REq(tres, V1)
          /\ targ = G2 => REq(tres, V2)
          /\ targ = Mid(G1, G2) => REq(tres, Mid(V1, V2))
    /\ top = "to_gene" =>
          /\ REq(tback, targ)
          /\ targ = V1 => REq(tres, G1)
          /\ targ = V2 => REq(tres, G2)
          /\ targ = Mid(V1, V2) => REq(tres, Mid(G1, G2))

\* C4 as stated: for every LinearTransform with g1 # g2, to_value and to_gene
\* are mutual inverses, to_value maps g1, g2 and the gene midpoint to v1, v2
\* and the value midpoint, and to_gene maps them back.
C4_LinearInverseAnyValueRange == LinReady => LinearLaws

\* C4 amended: the same, for every LinearTransform with g1 # g2 and v1 # v2.
C4_LinearInverse == (LinReady /\ V1 # V2) => LinearLaws

\* A value-midpoint that to_gene maps to the gene midpoint, on a gene range
\* that does not start at 0 and a value range that is not degenerate.
C4_Witness ==
    /\ LinReady /\ V1 # V2 /\ G1 # Rat(0)
    /\ top = "to_gene" /\ targ = Mid(V1, V2) /\ tres = Mid(G1, G2)
    /\ tback = targ

-----------------------------------------------------------------------------
(* ParameterSpace *)

\* A transform object: the attributes its constructor computes.
\* (One record shape for both classes; the attributes of the other class are
\* unset.)
NewLinear(gr, vr) ==
    [kind |-> "lin",
     slope |-> LinearSlope(gr[1], gr[2], vr[1], vr[2]),
     intercept |-> LinearIntercept(gr[1], gr[2], vr[1], vr[2]),
     exp_coeff |-> NaN, coeff |-> Pos(NaN)]

NewExponential(gr, vr) ==
    [kind |-> "exp",
     slope |-> NaN, intercept |-> NaN,
     exp_coeff |-> ExpCoeff(gr[1], gr[2], vr[1], vr[2]),
     coeff |-> Coeff(gr[1], gr[2], vr[1], vr[2])]

NoObject == [kind |-> "none", slope |-> NaN, intercept |-> NaN,
             exp_coeff |-> NaN, coeff |-> Pos(NaN)]

ObjToValue(t, gene) ==
    IF t.kind = "lin" THEN LinearToValue(t.slope, t.intercept, gene)
    ELSE ExpToValue(t.exp_coeff, t.coeff, gene)

ObjToGene(t, value) ==
    IF t.kind = "lin" THEN LinearToGene(t.slope, t.intercept, value)
    ELSE ExpToGene(t.exp_coeff, t.coeff, value)

\* An entry of the constructor's dictionary is either an object that has
\* to_value and to_gene (obj) or a tuple (tup).
\* The endpoints of an exponential tuple are written as base-2 logarithms:
\* <<Rat(0), Rat(2), "exp">> is the Python tuple (1, 4, 'exp').
Obj(t) == [is_obj |-> TRUE, obj |-> t, tup |-> <<>>]
Tup(t) == [is_obj |-> FALSE, obj |-> NoObject, tup |-> t]

Entries ==
    { Tup(<<Rat(0), Rat(2)>>),
      Tup(<<Rat(1), Rat(1), "lin">>),
      Tup(<<Rat(-1), Rat(3), "linear">>),
      Tup(<<Rat(0), Rat(2), "exp">>),
      Tup(<<Rat(1), Rat(3), "exponential">>),
      Tup(<<Rat(0), Rat(1), "log">>),
      Tup(<<Rat(0)>>),
      Obj(NewLinear(<<Rat(0), Rat(1)>>, <<Rat(2), Rat(5)>>)) }

Names == {"density", "length", "size"}

SpaceGeneRanges == {<<>>, <<Rat(-1), Rat(1)>>}

SpaceGenes == {Rat(0), Rat(1)}

\* The largest dictionary the constructor is given.
MaxParams == 2

Min(a, b) == IF a < b THEN a ELSE b

\* Dictionaries of at most MaxParams distinct names, in every insertion order.
Dicts ==
    UNION { { d \in [1..n -> Names \X Entries] :
                \A i, j \in 1..n : d[i][1] = d[j][1] => i = j } :
            n \in 0..Min(MaxParams, Cardinality(Names)) }

\* Gene vectors one longer than the largest dictionary, and all shorter ones.
GeneVectors == UNION { [1..n -> SpaceGenes] : n \in 0..(MaxParams + 1) }

EntryType(e) == IF Len(e.tup) = 2 THEN "linear" ELSE e.tup[3]

\* Whether the constructor's loop body raises ValueError on this entry.
EntryRaises(e, gr) ==
    /\ ~e.is_obj
    /\ \/ Len(e.tup) \notin {2, 3}
       \/ gr = <<>>
       \/ EntryType(e) \notin {"lin", "linear", "exp", "exponential"}

\* The transform the constructor stores for an entry that does not raise.
EntryTransform(e, gr) ==
    IF e.is_obj THEN e.obj
    ELSE IF EntryType(e) \in {"lin", "linear"}
         THEN NewLinear(gr, <<e.tup[1], e.tup[2]>>)
         ELSE NewExponential(gr, <<Pos(e.tup[1]), Pos(e.tup[2])>>)

DictKeys(d) == { d[i][1] : i \in DOMAIN d }

DictGet(d, k) == d[CHOOSE i \in DOMAIN d : d[i][1] = k][2]

\* A length check that lets a longer gene vector through.
SizeMismatchShortOnly(gs, ps) == Len(gs) < Len(ps)

\* The length check of to_parameters.
SizeMismatch(gs, ps) == Len(gs) # Len(ps)

\* The dict to_parameters builds from zip(genes, self.parameters): zip stops
\* at the shorter of the two.
ToParameters(gs, ps) ==
    [i \in 1..Min(Len(gs), Len(ps)) |-> <<ps[i][1], ObjToValue(ps[i][2], gs[i])>>]

\* to_genes filling the tuple from the last parameter to the first.
ToGenesReversed(ps, d) ==
    [i \in 1..Len(ps) |->
       ObjToGene(ps[Len(ps) + 1 - i][2], DictGet(d, ps[Len(ps) + 1 - i][1]))]

\* The tuple to_genes builds, iterating self.parameters in insertion order.
ToGenes(ps, d) ==
    [i \in 1..Len(ps) |-> ObjToGene(ps[i][2], DictGet(d, ps[i][1]))]

SpaceInit ==
    /\ TransformIdle
    /\ WrapperIdle
    /\ ps_parameters \in Dicts
    /\ ps_gene_range \in SpaceGeneRanges
    /\ spc = "new"
    /\ parameters = <<>> /\ sop = "none" /\ genes = <<>> /\ sout = "none"
    /\ result = <<>> /\ genes_back = <<>>

\* ParameterSpace.__init__
SpaceConstruct ==
    /\ spc = "new"
    /\ IF \E i \in DOMAIN ps_parameters :
              EntryRaises(ps_parameters[i][2], ps_gene_range)
       THEN spc' = "raised" /\ UNCHANGED parameters
       ELSE /\ spc' = "ready"
            /\ parameters' =
                 [i \in DOMAIN ps_parameters |->
                    <<ps_parameters[i][1],
                      EntryTransform(ps_parameters[i][2], ps_gene_range)>>]
    /\ UNCHANGED <<ps_parameters, ps_gene_range, sop, genes, sout, result,
                   genes_back>>
    /\ UNCHANGED <<tvars, wvars>>

\* ParameterSpace.to_parameters(genes)
CallToParameters ==
    /\ spc = "ready"
    /\ \E gs \in GeneVectors :
         /\ genes' = gs
         /\ IF SizeMismatch(gs, parameters)
            THEN sout' = "raised" /\ result' = <<>>
            ELSE sout' = "returned" /\ result' = ToParameters(gs, parameters)
    /\ sop' = "to_parameters"
    /\ genes_back' = <<>>
    /\ UNCHANGED <<ps_parameters, ps_gene_range, spc, parameters>>
    /\ UNCHANGED <<tvars, wvars>>

\* ParameterSpace.to_genes applied to the dict to_parameters returned.
CallToGenes ==
    /\ spc = "ready" /\ sop = "to_parameters" /\ sout = "returned"
    /\ sop' = "to_genes"
    /\ genes_back' = ToGenes(parameters, result)
    /\ UNCHANGED <<ps_parameters, ps_gene_range, spc, parameters, genes, sout,
                   result>>
    /\ UNCHANGED <<tvars, wvars>>

SpaceNext == SpaceConstruct \/ CallToParameters \/ CallToGenes

SpaceSpec == SpaceInit /\ [][SpaceNext]_vars

-----------------------------------------------------------------------------
(* Properties of the ParameterSpace *)

GenesRoundTrip ==
    /\ Len(genes_back) = Len(genes)
    /\ \A i \in DOMAIN genes : REq(genes_back[i], genes[i])

\* A transform whose value range has two different endpoints.
Invertible(t) ==
    IF t.kind = "lin" THEN ~IsNaN(t.slope) /\ t.slope # Rat(0)
    ELSE ~IsNaN(t.exp_coeff) /\ t.exp_coeff # Rat(0)

\* C5 as stated: for every ParameterSpace with N entries and every gene
\* vector of length N, to_genes(to_parameters(genes)) equals genes position
\* by position.
C5_RoundTripAnySpace == sop = "to_genes" => GenesRoundTrip

\* C5 amended: the same, for every ParameterSpace none of whose linear or
\* exponential transforms has equal value endpoints.
C5_RoundTrip ==
    (sop = "to_genes" /\ \A i \in DOMAIN parameters : Invertible(parameters[i][2]))
        => GenesRoundTrip

\* Two parameters of different classes, inserted out of alphabetical order,
\* decoded from two different genes and encoded back.
C5_Witness ==
    /\ sop = "to_genes" /\ Len(parameters) = 2
    /\ parameters[1][1] = "size" /\ parameters[2][1] = "density"
    /\ parameters[1][2].kind = "exp" /\ parameters[2][2].kind = "lin"
    /\ Invertible(parameters[1][2]) /\ Invertible(parameters[2][2])
    /\ genes = <<Rat(0), Rat(1)>> /\ genes_back = genes

\* C6: to_parameters raises iff len(genes) differs from the number of
\* declared parameters; when it returns, the dict has exactly one entry per
\* declared name; when it raises, nothing is returned.
C6_SizeMismatchIff ==
    sop # "none" =>
        /\ sout \in {"raised", "returned"}
        /\ sout = "raised" <=> Len(genes) # Len(parameters)
        /\ sout = "returned" =>
              /\ Len(result) = Len(parameters)
              /\ \A i \in DOMAIN parameters : result[i][1] = parameters[i][1]
              /\ Cardinality(DictKeys(result)) = Len(parameters)
        /\ sout = "raised" => result = <<>>

\* A gene vector one longer than a non-empty parameter space is rejected.
C6_Witness ==
    /\ sop = "to_parameters" /\ sout = "raised"
    /\ Len(parameters) >= 1 /\ Len(genes) = Len(parameters) + 1

-----------------------------------------------------------------------------
(* Arrays and masks of the wrappers *)

\* The values a gene takes in the wrappers' arrays.
Gene == {0, 1}

\* The column counts C of the arrays.
ColChoices == {1, 2}

\* The largest offspring row count R.
MaxRows == 2

\* The value at which the invocation counter `calls` stops counting.
MaxCalls == 2

\* All 2D arrays with n rows and c columns.
Arrays(n, c) == [1..n -> [1..c -> Gene]]

\* np.zeros((n, c))
Zeros(n, c) == [i \in 1..n |-> [j \in 1..c |-> 0]]

\* Three rows of c columns: all zero, all one, and one followed by zeros.
InputRow(c, m) ==
    [j \in 1..c |-> IF m = 0 THEN 0 ELSE IF m = 1 \/ j = 1 THEN 1 ELSE 0]

\* The arrays a wrapper is called with: n equal rows (all zero, all one), or
\* the three rows above in turn, starting from any of them.
InputArrays(n, c) ==
    { [i \in 1..n |-> InputRow(c, m)] : m \in {0, 1} }
    \cup { [i \in 1..n |-> InputRow(c, (i + k) % 3)] : k \in {0, 1, 2} }

\* The parents arrays of a crossover call: two parents.
ParentArrays(c) == InputArrays(2, c)

\* np.full(n, True)
AllTrue(n) == [i \in 1..n |-> TRUE]

\* np.any(mask), np.all(mask), np.count_nonzero(mask)
NpAny(mask) == \E i \in DOMAIN mask : mask[i]
NpAll(mask) == \A i \in DOMAIN mask : mask[i]
CountNonzero(mask) == Cardinality({i \in DOMAIN mask : mask[i]})

\* How many of mask[1..i] are True.
Rank(mask, i) == Cardinality({j \in 1..i : mask[j]})

\* arr[mask]: the rows of arr where mask is True, in order (a new array).
Select(arr, mask) ==
    [k \in 1..CountNonzero(mask) |->
       arr[CHOOSE i \in DOMAIN mask : mask[i] /\ Rank(mask, i) = k]]

\* arr after arr[mask] = rows.
Scatter(arr, mask, rows) ==
    [i \in DOMAIN arr |-> IF mask[i] THEN rows[Rank(mask, i)] ELSE arr[i]]

\* The orders np.random.shuffle can leave n rows in.
Perms(n) == { f \in [1..n -> 1..n] : \A i, j \in 1..n : f[i] = f[j] => i = j }

Permute(arr, f) == [i \in DOMAIN arr |-> arr[f[i]]]

(* The feasibility predicate `condition`: True marks a violating row *)

ConditionKinds == {"never", "zero_row", "nonzero_row", "duplicate"}

RowWise(kind) == kind \in {"never", "zero_row", "nonzero_row"}

\* "never": no row violates; "zero_row": the all-zero row violates;
\* "nonzero_row": every row other than the all-zero row violates;
\* "duplicate": a row equal to an earlier row of the same batch violates.
Condition(kind, arr) ==
    [i \in DOMAIN arr |->
       CASE kind = "never" -> FALSE
         [] kind = "zero_row" -> \A j \in DOMAIN arr[i] : arr[i][j] = 0
         [] kind = "nonzero_row" -> \E j \in DOMAIN arr[i] : arr[i][j] # 0
         [] OTHER -> \E h \in 1..(i - 1) : arr[h] = arr[i]]

-----------------------------------------------------------------------------
(* The pieces of the wrappers that the steps below are built from *)

\* A guard that raises only when every input row violates.
InputViolatesAll(kind, arr) == NpAll(Condition(kind, arr)) /\ Len(arr) > 0

\* `if np.any(condition(...)): raise ValueError`
InputViolates(kind, arr) == NpAny(Condition(kind, arr))

\* A loop test that stops as soon as one row is accepted.
LoopContinuesAll(mask) == NpAll(mask) /\ Len(mask) > 0

\* `while np.any(to_generate)` / `while np.any(check_offspring)`
LoopContinues(mask) == NpAny(mask)

\* A re-evaluation that trusts whatever the base operator returned.
ReEvaluateNothing(kind, arr) == [i \in DOMAIN arr |-> FALSE]

\* `to_generate = condition(offspring)` / `check_offspring = condition(offspring)`
ReEvaluate(kind, arr) == Condition(kind, arr)

\* A wrapper that keeps working on the caller's array.
ParentsNoCopy == "caller"

\* `parents = parents.copy()`: the name is rebound to a new array.
ParentsCopy == "local"

\* A request for the whole offspring_size at every invocation.
RequestSizeFull(mask, size) == size

\* `(np.count_nonzero(to_generate), offspring_size[1])`
RequestSize(mask, size) == <<CountNonzero(mask), size[2]>>

\* An argument taken from the current, already mutated, offspring.
MutationArgCurrent(initial, current, mask) == Select(current, mask)

\* `initial_offspring[check_offspring]`
MutationArg(initial, current, mask) == Select(initial, mask)

\* initial_offspring after mutation_func changed its argument in place: the
\* argument is the new array that mask indexing built, so nothing reaches
\* initial_offspring.
InitialAfterBase(initial, mask, out) == initial

\* The array the wrapper's name `parents` denotes.
Parents == IF parents_ref = "caller" THEN caller_parents ELSE local_parents

Wpc(mask) == IF LoopContinues(mask) THEN "loop" ELSE "done"

Bump(n) == IF n < MaxCalls THEN n + 1 ELSE n

-----------------------------------------------------------------------------
(* The wrappers *)

Init ==
    /\ TransformIdle
    /\ SpaceIdle
    /\ wrapper \in {"crossover", "mutation"}
    /\ condition_kind \in ConditionKinds
    /\ wpc = "call"
    /\ offspring_size \in (0..MaxRows) \X ColChoices
    /\ IF wrapper = "crossover"
       THEN /\ caller_parents \in ParentArrays(offspring_size[2])
            /\ offspring = <<>>
       ELSE /\ caller_parents = <<>>
            /\ offspring \in InputArrays(offspring_size[1], offspring_size[2])
    /\ local_parents = <<>> /\ parents_ref = "caller"
    /\ initial_offspring = <<>>
    /\ to_generate = <<>> /\ check_offspring = <<>> /\ calls = 0
    /\ entry_parents = caller_parents /\ entry_offspring = offspring
    /\ arg_parents = <<>> /\ arg_size = <<0, 0>> /\ arg_rows = <<>>

\* conditional_crossover_func up to its loop: the check of the parents, the
\* copy, the zero buffer and the all-True mask.
CrossoverEnter ==
    /\ wrapper = "crossover" /\ wpc = "call"
    /\ IF InputViolates(condition_kind, caller_parents)
       THEN /\ wpc' = "raised"
            /\ UNCHANGED <<local_parents, parents_ref, offspring, to_generate>>
       ELSE /\ parents_ref' = ParentsCopy
            /\ local_parents' = caller_parents
            /\ offspring' = Zeros(offspring_size[1], offspring_size[2])
            /\ to_generate' = AllTrue(offspring_size[1])
            /\ wpc' = Wpc(to_generate')
    /\ UNCHANGED <<wrapper, condition_kind, offspring_size, caller_parents,
                   initial_offspring, check_offspring, calls, entry_parents,
                   entry_offspring, arg_parents, arg_size, arg_rows>>
    /\ UNCHANGED <<tvars, svars>>

\* One pass of the crossover loop: crossover_func is called and may return
\* any array of the size requested; the result is written to the pending
\* rows, the whole buffer is re-evaluated, and `parents` is shuffled.
CrossoverIterate ==
    /\ wrapper = "crossover" /\ wpc = "loop"
    /\ arg_parents' = Parents
    /\ arg_size' = RequestSize(to_generate, offspring_size)
    /\ \E rows \in Arrays(arg_size'[1], arg_size'[2]) :
         offspring' = Scatter(offspring, to_generate, rows)
    /\ to_generate' = ReEvaluate(condition_kind, offspring')
    /\ \E f \in Perms(Len(Parents)) :
         IF parents_ref = "caller"
         THEN caller_parents' = Permute(caller_parents, f) /\ UNCHANGED local_parents
         ELSE local_parents' = Permute(local_parents, f) /\ UNCHANGED caller_parents
    /\ calls' = Bump(calls)
    /\ wpc' = Wpc(to_generate')
    /\ UNCHANGED <<wrapper, condition_kind, offspring_size, parents_ref,
                   initial_offspring, check_offspring, entry_parents,
                   entry_offspring, arg_rows>>
    /\ UNCHANGED <<tvars, svars>>

\* conditional_mutation_func up to its loop: the check of the offspring, the
\* mask set to True everywhere, and the copy.
MutationEnter ==
    /\ wrapper = "mutation" /\ wpc = "call"
    /\ IF InputViolates(condition_kind, offspring)
       THEN /\ wpc' = "raised"
            /\ UNCHANGED <<check_offspring, initial_offspring>>
       ELSE /\ check_offspring' = AllTrue(Len(offspring))
            /\ initial_offspring' = offspring
            /\ wpc' = Wpc(check_offspring')
    /\ UNCHANGED <<wrapper, condition_kind, offspring_size, caller_parents,
                   local_parents, parents_ref, offspring, to_generate, calls,
                   entry_parents, entry_offspring, arg_parents, arg_size,
                   arg_rows>>
    /\ UNCHANGED <<tvars, svars>>

\* One pass of the mutation loop: mutation_func is given the selected rows
\* and may return any array of their shape (random_gaussian changes its
\* argument in place and returns it); the result is written to the pending
\* rows of the caller's array and the whole array is re-evaluated.
MutationIterate ==
    /\ wrapper = "mutation" /\ wpc = "loop"
    /\ arg_rows' = MutationArg(initial_offspring, offspring, check_offspring)
    /\ \E out \in Arrays(Len(arg_rows'), offspring_size[2]) :
         /\ initial_offspring' = InitialAfterBase(initial_offspring, check_offspring, out)
         /\ offspring' = Scatter(offspring, check_offspring, out)
    /\ check_offspring' = ReEvaluate(condition_kind, offspring')
    /\ calls' = Bump(calls)
    /\ wpc' = Wpc(check_offspring')
    /\ UNCHANGED <<wrapper, condition_kind, offspring_size, caller_parents,
                   local_parents, parents_ref, to_generate, entry_parents,
                   entry_offspring, arg_parents, arg_size>>
    /\ UNCHANGED <<tvars, svars>>

Next == CrossoverEnter \/ CrossoverIterate \/ MutationEnter \/ MutationIterate

Spec == Init /\ [][Next]_vars

\* Row i of the array is accepted by the predicate after the step.
RowAccepted(i) ==
    /\ i \in DOMAIN offspring'
    /\ ~Condition(condition_kind, offspring')[i]

\* The call runs, and for each row the base operator eventually produces a
\* row that the predicate accepts.
FairSpec ==
    /\ Spec
    /\ WF_vars(CrossoverEnter \/ MutationEnter)
    /\ \A i \in 1..MaxRows :
         WF_vars((CrossoverIterate \/ MutationIterate) /\ RowAccepted(i))

-----------------------------------------------------------------------------
(* Properties of the wrappers *)

\* The array the wrapper was called on.
EntryInput == IF wrapper = "crossover" THEN entry_parents ELSE entry_offspring

InputInfeasible == \E i \in DOMAIN EntryInput : Condition(condition_kind, EntryInput)[i]

\* C1: when either wrapper returns, the predicate applied to the whole
\* returned array marks no row.
C1_ReturnedFeasible ==
    wpc = "done" =>
        \A i \in DOMAIN offspring : ~Condition(condition_kind, offspring)[i]

\* A crossover call that returned two rows after a retry, under a predicate
\* that rejects the rows of the initial zero buffer.
C1_Witness ==
    /\ wrapper = "crossover" /\ condition_kind = "zero_row"
    /\ wpc = "done" /\ calls = 2 /\ Len(offspring) = 2

\* C2: if an input row is infeasible, the wrapper raises at once and the
\* base operator is never called.
C2_InfeasibleInputRaises ==
    /\ InputInfeasible =>
          /\ wpc \in {"call", "raised"}
          /\ calls = 0 /\ arg_size = <<0, 0>> /\ arg_rows = <<>>
    /\ wpc = "raised" => InputInfeasible

\* A mutation call that raised on an offspring array with one feasible and
\* one infeasible row.
C2_Witness ==
    /\ wrapper = "mutation" /\ wpc = "raised" /\ calls = 0
    /\ Len(entry_offspring) = 2
    /\ ~Condition(condition_kind, entry_offspring)[1]
    /\ Condition(condition_kind, entry_offspring)[2]

\* How a step of the mutation loop must choose the rows it hands over.
MutationStartsFresh ==
    (wrapper = "mutation" /\ wpc = "loop") =>
        arg_rows' = Select(entry_offspring, check_offspring)

\* C8: every invocation of the base mutation receives the entry-time values
\* of the rows that are pending, never the values an earlier attempt left.
C8_MutationStartsFresh == [][MutationStartsFresh]_vars

\* A retry of one row whose rejected value differs from its entry-time value:
\* the base mutation was handed the entry-time value.
C8_Witness ==
    /\ wrapper = "mutation" /\ calls = 2 /\ Len(offspring) = 2
    /\ arg_rows = <<entry_offspring[2]>>
    /\ wpc = "loop" /\ check_offspring = <<FALSE, TRUE>>
    /\ offspring[2] # entry_offspring[2]

\* What each step of the crossover wrapper must do with rows and sizes.
CrossoverRows ==
    wrapper = "crossover" =>
        /\ (wpc = "call" /\ wpc' # "raised") =>
              /\ to_generate' = AllTrue(offspring_size[1])
              /\ Len(offspring') = offspring_size[1]
        /\ wpc = "loop" =>
              /\ arg_size' = <<CountNonzero(to_generate), offspring_size[2]>>
              /\ Len(offspring') = offspring_size[1]
              /\ \A i \in DOMAIN offspring :
                    /\ Len(offspring'[i]) = offspring_size[2]
                    /\ ~to_generate[i] => offspring'[i] = offspring[i]

\* C9: all R rows start pending; each invocation of the base crossover
\* requests as many rows as are pending, with C columns; rows that are not
\* pending keep their values across the retry.
C9_CrossoverRows == [][CrossoverRows]_vars

\* A retry that requested one row of two columns while the other row of a
\* two-row call had been accepted.
C9_Witness ==
    /\ wrapper = "crossover" /\ offspring_size = <<2, 2>>
    /\ calls = 2 /\ arg_size = <<1, 2>>

IsRowPermutation(a, b) ==
    /\ Len(a) = Len(b)
    /\ \E f \in Perms(Len(b)) : a = Permute(b, f)

\* C10: the caller's parents array is never changed, and the array handed to
\* the base crossover is a row permutation of it, in the caller's order at
\* the first invocation.
C10_ParentsUntouched ==
    wrapper = "crossover" =>
        /\ caller_parents = entry_parents
        /\ calls >= 1 => IsRowPermutation(arg_parents, entry_parents)
        /\ calls = 1 => arg_parents = entry_parents

\* A retry that handed over the parents in another order than the caller's.
C10_Witness ==
    /\ wrapper = "crossover" /\ calls = 2
    /\ arg_parents # entry_parents
    /\ caller_parents = entry_parents

\* The loop is left exactly when the predicate marks no row of the array.
LoopExitsWhenClean ==
    wpc = "loop" =>
        (wpc' = "done" <=>
           \A i \in DOMAIN offspring' : ~Condition(condition_kind, offspring')[i])

\* Predicates that reject some row of every width.
CanReject(kind) == kind \in {"zero_row", "nonzero_row"}

\* From a pending state the base operator can return rows that keep the
\* loop going.
CanStayInLoop ==
    (wpc = "loop" /\ CanReject(condition_kind)) => ENABLED (Next /\ wpc' = "loop")

\* C7: the loop is left exactly when the predicate marks no row; with
\* feasible input and a row-wise predicate every call returns, given that
\* the base operator eventually produces an accepted row for each row; and
\* while a row can be rejected a further pass that does not return is
\* always possible, so nothing bounds the number of passes.
C7_LoopTermination ==
    /\ [][Next => LoopExitsWhenClean]_vars
    /\ [](CanStayInLoop)
    /\ (wpc \in {"call", "loop"} /\ RowWise(condition_kind) /\ ~InputInfeasible)
          ~> (wpc = "done")

\* A mutation call that returned after a retry.
C7_Witness ==
    /\ wrapper = "mutation" /\ condition_kind = "nonzero_row"
    /\ wpc = "done" /\ calls = 2 /\ Len(offspring) = 2

=============================================================================
